---- MODULE Spec2Model ----
(***************************************************************************)
(* Options yield scanner: the Black-Scholes delta function and the scan    *)
(* pipeline of options_scanner.py (command line) and                       *)
(* options_scanner_app.py (Streamlit).                                     *)
(*                                                                         *)
(* Numbers.  The program computes in IEEE doubles (numpy/pandas).  A       *)
(* number is modelled as a pair <<n, d>> in lowest terms with d >= 0:      *)
(* d > 0 is the rational n/d, <<1,0>> is +inf, <<-1,0>> is -inf and        *)
(* <<0,0>> is NaN, with numpy's rules for division by zero, inf and NaN.   *)
(* The transcendental functions (np.log, np.sqrt, norm.cdf) are sampled:   *)
(* np.log and np.sqrt on the arguments the bounded inputs produce,         *)
(* norm.cdf as a monotone step function on a grid of quarters.             *)
(***************************************************************************)
EXTENDS Integers, Sequences, FiniteSets, TLC

VARIABLES
    surface,            \* "cli" (options_scanner.py) or "app" (options_scanner_app.py)
    option_type,        \* 'call', 'put', or any other text the prompt accepted
    delta_target,       \* a number, or None (cli: Enter pressed)
    delta_bound_type,   \* 'min', 'max', other text, or "None" (cli: never asked)
    min_weekly_yield,
    max_exp_date,
    max_bid_ask_spread,
    today,              \* datetime.now().date(), as a day number
    pc,                 \* position of the scan
    queries,            \* provider queries made so far, in order
    expirations,        \* the filtered expiration list
    current_price,
    next_exp,           \* index in expirations of the next loop iteration
    chains,             \* expiration -> what ticker.option_chain gave for it
    all_options,        \* list of per-expiration frames (each a sequence of rows)
    skipped,            \* expirations whose processing raised (one log line each)
    bs_calls,           \* arguments black_scholes_delta was invoked with
    final_df,           \* <<the sorted table>>, once it exists
    shown,              \* <<the head(10) / head(20) that is displayed>>
    best,               \* <<final_df.iloc[0]>>
    outcome,            \* how the scan ended
    bs_in,              \* delta unit: the inputs
    bs_out              \* delta unit: option type -> returned value

vars == <<surface, option_type, delta_target, delta_bound_type, min_weekly_yield,
          max_exp_date, max_bid_ask_spread, today, pc, queries, expirations,
          current_price, next_exp, chains, all_options, skipped, bs_calls,
          final_df, shown, best, outcome, bs_in, bs_out>>

\* python's None: for a number or a table, the empty tuple (a table that exists
\* is held as <<table>>); for a text, the text "None"
None == <<>>
NoText == "None"

(***************************************************************************)
(* IEEE-style arithmetic on <<n, d>>                                       *)
(***************************************************************************)
IAbs(x) == IF x < 0 THEN -x ELSE x

RECURSIVE Gcd(_, _)
Gcd(a, b) == IF b = 0 THEN a ELSE Gcd(b, a % b)

Sign(n) == IF n > 0 THEN 1 ELSE IF n < 0 THEN -1 ELSE 0

\* the number n/d in lowest terms; n/0 is +inf, -inf or NaN
Num(n, d) ==
    IF d = 0 THEN <<Sign(n), 0>>
    ELSE LET g == Gcd(IAbs(n), IAbs(d))
             s == Sign(d)
         IN  <<(s * n) \div g, (s * d) \div g>>

NaN == <<0, 0>>
PosInf == <<1, 0>>
NegInf == <<-1, 0>>
Zero == <<0, 1>>
One == <<1, 1>>

IsNaN(a) == a = NaN
IsInf(a) == a[2] = 0 /\ a[1] # 0
IsFinite(a) == a[2] > 0

FAdd(a, b) ==
    IF IsInf(a) /\ IsInf(b) THEN (IF a = b THEN a ELSE NaN)
    ELSE Num(a[1] * b[2] + b[1] * a[2], a[2] * b[2])

FNeg(a) == <<-a[1], a[2]>>

FSub(a, b) == FAdd(a, FNeg(b))

FMul(a, b) == Num(a[1] * b[1], a[2] * b[2])

FDiv(a, b) == Num(a[1] * b[2] * Sign(b[1]), a[2] * IAbs(b[1]))

FAbs(a) == <<IAbs(a[1]), a[2]>>

\* comparisons: every comparison with NaN is False
FLe(a, b) ==
    /\ ~IsNaN(a)
    /\ ~IsNaN(b)
    /\ IF IsInf(a) /\ IsInf(b) THEN a[1] <= b[1]
       ELSE a[1] * b[2] <= b[1] * a[2]

FGe(a, b) == FLe(b, a)

FLt(a, b) == FLe(a, b) /\ a # b

FGt(a, b) == FLt(b, a)

(***************************************************************************)
(* Sampled transcendental functions                                        *)
(***************************************************************************)
\* np.log, in thousandths, on the spot/strike ratios over {9, 10, 11}
np_log(x) ==
    IF IsNaN(x) \/ FLt(x, Zero) THEN NaN
    ELSE IF x = Zero THEN NegInf
    ELSE IF x = PosInf THEN PosInf
    ELSE CASE x = <<1, 1>>   -> Zero
           [] x = <<10, 9>>  -> Num(105, 1000)
           [] x = <<9, 10>>  -> Num(-105, 1000)
           [] x = <<11, 10>> -> Num(95, 1000)
           [] x = <<10, 11>> -> Num(-95, 1000)
           [] x = <<11, 9>>  -> Num(201, 1000)
           [] x = <<9, 11>>  -> Num(-201, 1000)

\* np.sqrt, in thousandths, on T = days / 365 for 7, 14 and 21 days
np_sqrt(x) ==
    IF IsNaN(x) \/ FLt(x, Zero) THEN NaN
    ELSE IF x = PosInf THEN PosInf
    ELSE CASE x = Zero         -> Zero
           [] x = <<7, 365>>   -> Num(138, 1000)
           [] x = <<14, 365>>  -> Num(196, 1000)
           [] x = <<21, 365>>  -> Num(240, 1000)

\* the standard normal CDF at 0, 1/4, 2/4, ..., 3, in hundredths
CdfTable == <<50, 60, 69, 77, 84, 89, 93, 96, 98, 99, 99, 100, 100>>

\* norm.cdf: the CDF at the quarter at or below x; saturates beyond +-3
norm_cdf(x) ==
    IF IsNaN(x) THEN NaN
    ELSE IF x = PosInf THEN One
    ELSE IF x = NegInf THEN Zero
    ELSE LET k == (4 * x[1]) \div x[2]
         IN  IF k >= Len(CdfTable) THEN One
             ELSE IF k < -Len(CdfTable) THEN Zero
             ELSE IF k >= 0 THEN Num(CdfTable[k + 1], 100)
             ELSE Num(100 - CdfTable[-k], 100)

(***************************************************************************)
(* black_scholes_delta                                                     *)
(***************************************************************************)
\* r = 0.05, the static risk-free rate
r == Num(5, 100)

\* d1 = (np.log(S / K) + (r + 0.5 * sigma**2) * T) / (sigma * np.sqrt(T))
D1(S, K, T, rate, sigma) ==
    FDiv(FAdd(np_log(FDiv(S, K)),
              FMul(FAdd(rate, FMul(Num(1, 2), FMul(sigma, sigma))), T)),
         FMul(sigma, np_sqrt(T)))

\* mutant: the degenerate-input test written with < instead of <=
black_scholes_delta_strict(S, K, T, rate, sigma, ot) ==
    IF FLt(T, Zero) \/ FLt(sigma, Zero) THEN Zero
    ELSE IF ot = "call" THEN norm_cdf(D1(S, K, T, rate, sigma))
    ELSE FSub(norm_cdf(D1(S, K, T, rate, sigma)), One)

black_scholes_delta(S, K, T, rate, sigma, ot) ==
    IF FLe(T, Zero) \/ FLe(sigma, Zero) THEN Zero
    ELSE IF ot = "call" THEN norm_cdf(D1(S, K, T, rate, sigma))
    ELSE FSub(norm_cdf(D1(S, K, T, rate, sigma)), One)

(***************************************************************************)
(* The delta unit: black_scholes_delta applied to bounded inputs           *)
(***************************************************************************)
UnitSpots == {Num(-10, 1), Zero, Num(9, 1), Num(10, 1), Num(11, 1)}
UnitStrikes == {Num(-10, 1), Zero, Num(9, 1), Num(10, 1), Num(11, 1)}
UnitTimes == {Num(-7, 365), Zero, Num(7, 365), Num(14, 365), Num(21, 365)}
UnitRates == {Zero, r}
UnitVols == {Num(-1, 2), Zero, Num(1, 2)}
OptionTypes == {"call", "put"}

Idle ==
    /\ surface = NoText /\ option_type = NoText /\ delta_target = None
    /\ delta_bound_type = NoText /\ min_weekly_yield = None /\ max_exp_date = 0
    /\ max_bid_ask_spread = None /\ today = 0 /\ queries = <<>>
    /\ expirations = <<>> /\ current_price = None /\ next_exp = 0
    /\ chains = <<>> /\ all_options = <<>> /\ skipped = <<>> /\ bs_calls = {}
    /\ final_df = None /\ shown = None /\ best = None /\ outcome = NoText

InitDelta ==
    /\ Idle
    /\ pc = "unit"
    /\ bs_in \in [S: UnitSpots, K: UnitStrikes, T: UnitTimes, rate: UnitRates,
                  sigma: UnitVols]
    /\ bs_out = [ot \in OptionTypes |-> None]

\* one call of black_scholes_delta on the unit's inputs
CallDelta(ot) ==
    /\ pc = "unit"
    /\ bs_out[ot] = None
    /\ bs_out' = [bs_out EXCEPT ![ot] =
                     black_scholes_delta(bs_in.S, bs_in.K, bs_in.T, bs_in.rate,
                                         bs_in.sigma, ot)]
    /\ UNCHANGED <<surface, option_type, delta_target, delta_bound_type,
                   min_weekly_yield, max_exp_date, max_bid_ask_spread, today, pc,
                   queries, expirations, current_price, next_exp, chains,
                   all_options, skipped, bs_calls, final_df, shown, best, outcome,
                   bs_in>>

CallDeltaCall == CallDelta("call")

CallDeltaPut == CallDelta("put")

NextDelta == CallDeltaCall \/ CallDeltaPut

SpecDelta == InitDelta /\ [][NextDelta]_vars

\* C10: black_scholes_delta returns exactly 0 whenever T <= 0 or sigma <= 0, for
\* both option types and whatever the spot, strike and rate are; otherwise, on
\* positive spot and strike, it returns the normal CDF at d1 for a call and that
\* value minus 1 for a put, so the call delta minus the put delta is 1.
DeltaContract ==
    pc = "unit" =>
        LET degenerate == FLe(bs_in.T, Zero) \/ FLe(bs_in.sigma, Zero)
            cdf == norm_cdf(D1(bs_in.S, bs_in.K, bs_in.T, bs_in.rate, bs_in.sigma))
            valid == FGt(bs_in.S, Zero) /\ FGt(bs_in.K, Zero)
        IN  /\ \A ot \in OptionTypes :
                  (bs_out[ot] # None /\ degenerate) => bs_out[ot] = Zero
            /\ (bs_out["call"] # None /\ ~degenerate /\ valid) =>
                  bs_out["call"] = cdf
            /\ (bs_out["put"] # None /\ ~degenerate /\ valid) =>
                  /\ bs_out["put"] = FSub(cdf, One)
                  /\ (bs_out["call"] # None =>
                         FSub(bs_out["call"], bs_out["put"]) = One)

\* a degenerate pair of calls has returned 0 although the strike is 0 (the
\* logarithm and the division by the strike would be undefined)
DeltaContractWitness ==
    /\ pc = "unit"
    /\ bs_in.sigma = Zero /\ bs_in.K = Zero /\ FGt(bs_in.T, Zero)
    /\ bs_out["call"] = Zero /\ bs_out["put"] = Zero

\* a regular pair of calls has returned: 0 < call delta < 1 and put = call - 1
DeltaParityWitness ==
    /\ pc = "unit"
    /\ bs_in.S = Num(10, 1) /\ bs_in.K = Num(11, 1) /\ bs_in.T = Num(7, 365)
    /\ bs_in.sigma = Num(1, 2)
    /\ bs_out["call"] # None /\ bs_out["put"] # None
    /\ FGt(bs_out["call"], Zero) /\ FLt(bs_out["call"], One)
    /\ FLt(bs_out["put"], Zero)

(***************************************************************************)
(* The scan: inputs                                                        *)
(***************************************************************************)
\* longest option chain the provider returns for one expiration
MaxChain == 1

\* head(10) of the command line and head(20) of the app
HeadCli == 10
HeadApp == 20

Surfaces == {"cli", "app"}

\* what the prompts accept (any text), and what the select boxes offer
CliOptionTypes == {"call", "put", "straddle"}
CliBoundTypes == {"min", "max", "minimum"}
AppBoundTypes == {"min", "max"}
DeltaTargets == {Zero, Num(1, 2), Num(-1, 2)}
MinWeeklyYields == {Num(1, 10), Num(-1, 10)}
MaxSpreads == {Num(1, 5)}
MaxExpDates == {14}
Todays == {0, 7}

\* the dates ticker.options lists, as day numbers
ProviderDates == {7, 14, 21}
Spots == {Num(10, 1)}

\* the quotes a chain is made of (strike, bid, ask, impliedVolatility), spot 10:
\*   at the money, weekly yield 1/10 at 7 days;
\*   at the money, weekly yield 1/10 at 14 days (a full tie with the first);
\*   strike 9, spread exactly 1/5, weekly put yield 1/10 at 14 days (a tie on
\*     the first key only);
\*   strike 11, a put priced below its intrinsic value;
\*   strike 11, spread 3/10;
\*   strike 0, a malformed quote
QuoteKinds == {
    [strike |-> Num(10, 1), bid |-> Num(1, 1),   ask |-> Num(1, 1),   impliedVolatility |-> Num(1, 2)],
    [strike |-> Num(10, 1), bid |-> Num(2, 1),   ask |-> Num(2, 1),   impliedVolatility |-> Num(1, 2)],
    [strike |-> Num(9, 1),  bid |-> Num(17, 10), ask |-> Num(19, 10), impliedVolatility |-> Num(1, 2)],
    [strike |-> Num(11, 1), bid |-> Num(1, 2),   ask |-> Num(1, 2),   impliedVolatility |-> Num(1, 2)],
    [strike |-> Num(11, 1), bid |-> Num(1, 1),   ask |-> Num(13, 10), impliedVolatility |-> Num(1, 2)],
    [strike |-> Zero,       bid |-> Num(1, 1),   ask |-> Num(1, 1),   impliedVolatility |-> Num(1, 2)] }

\* the columns a defective chain frame may lack, each raising KeyError at its
\* first use: 'bid' while annotating, 'impliedVolatility' while filtering and
\* 'strike' while scoring
Columns == {"bid", "impliedVolatility", "strike"}

SeqsUpTo(S, n) == UNION {[1..k -> S] : k \in 0..n}

\* sequences of distinct elements of S
Orderings(S) ==
    {q \in SeqsUpTo(S, Cardinality(S)) : \A i, j \in 1..Len(q) : i # j => q[i] # q[j]}

\* python truthiness of delta_target: None and 0.0 are false
Truthy(x) == x # None /\ x # Zero

\* lines 20-27 (cli) and 20-26 (app): the parameters as the surface collects them
InputOK ==
    /\ surface \in Surfaces
    /\ min_weekly_yield \in MinWeeklyYields
    /\ max_exp_date \in MaxExpDates
    /\ max_bid_ask_spread \in MaxSpreads
    /\ IF surface = "cli"
       THEN /\ option_type \in CliOptionTypes
            /\ delta_target \in DeltaTargets \cup {None}
            /\ IF Truthy(delta_target)
               THEN delta_bound_type \in CliBoundTypes
               ELSE delta_bound_type = NoText
       ELSE /\ option_type \in OptionTypes
            /\ delta_target \in DeltaTargets
            /\ delta_bound_type \in AppBoundTypes

Init ==
    /\ InputOK
    /\ today \in Todays
    /\ pc = "options"
    /\ queries = <<>>
    /\ expirations = <<>>
    /\ current_price = None
    /\ next_exp = 0
    /\ chains = <<>>
    /\ all_options = <<>>
    /\ skipped = <<>>
    /\ bs_calls = {}
    /\ final_df = None
    /\ shown = None
    /\ best = None
    /\ outcome = NoText
    /\ bs_in = None
    /\ bs_out = None

params == <<surface, option_type, delta_target, delta_bound_type, min_weekly_yield,
            max_exp_date, max_bid_ask_spread, today>>

(***************************************************************************)
(* The scan: one expiration's frame                                        *)
(***************************************************************************)
Map(f(_), q) == [i \in 1..Len(q) |-> f(q[i])]

Rows(q) == {q[i] : i \in 1..Len(q)}

\* df = chain.calls if option_type == 'call' else chain.puts
Side == IF option_type = "call" THEN "calls" ELSE "puts"

\* the frame of one side of a chain: the quotes, each with its contract symbol
Frame(exp, quotes) ==
    [i \in 1..Len(quotes) |-> quotes[i] @@ [contractSymbol |-> <<exp, Side, i>>]]

\* df['expiration'] = exp;  df['days_to_exp'] = (exp.date() - now.date()).days
WithExpiration(row, exp) ==
    row @@ [expiration |-> exp, days_to_exp |-> exp - today]

\* df = df[df['days_to_exp'] > 0]
DaysOK(row) == row.days_to_exp > 0

\* df['T'], df['mid'], df['bid_ask_spread']
WithMid(row) ==
    row @@ [T |-> Num(row.days_to_exp, 365),
            mid |-> FDiv(FAdd(row.bid, row.ask), Num(2, 1)),
            bid_ask_spread |-> FSub(row.ask, row.bid)]

\* df = df[df['bid_ask_spread'] <= max_bid_ask_spread]
SpreadOK(row) == FLe(row.bid_ask_spread, max_bid_ask_spread)

\* df = df[df['impliedVolatility'] > 0]
VolOK(row) == FGt(row.impliedVolatility, Zero)

\* df['delta_calc'] = df.apply(lambda row: black_scholes_delta(...), axis=1)
WithDelta(row) ==
    row @@ [delta_calc |->
               black_scholes_delta(current_price, row.strike, row.T, r,
                                   row.impliedVolatility, option_type)]

\* the delta filter of options_scanner.py: if / elif on the bound
DeltaOKCli(row) ==
    IF Truthy(delta_target)
    THEN IF option_type = "put"
         THEN IF delta_bound_type = "min"
              THEN FLe(row.delta_calc, FNeg(FAbs(delta_target)))
              ELSE IF delta_bound_type = "max"
              THEN FGe(row.delta_calc, FNeg(FAbs(delta_target)))
              ELSE TRUE
         ELSE IF delta_bound_type = "min"
              THEN FGe(row.delta_calc, delta_target)
              ELSE IF delta_bound_type = "max"
              THEN FLe(row.delta_calc, delta_target)
              ELSE TRUE
    ELSE TRUE

\* the delta filter of options_scanner_app.py: if / else on the bound
DeltaOKApp(row) ==
    IF Truthy(delta_target)
    THEN IF option_type = "put"
         THEN IF delta_bound_type = "min"
              THEN FLe(row.delta_calc, FNeg(FAbs(delta_target)))
              ELSE FGe(row.delta_calc, FNeg(FAbs(delta_target)))
         ELSE IF delta_bound_type = "min"
              THEN FGe(row.delta_calc, delta_target)
              ELSE FLe(row.delta_calc, delta_target)
    ELSE TRUE

DeltaOK(row) == IF surface = "cli" THEN DeltaOKCli(row) ELSE DeltaOKApp(row)

\* Series.clip(lower=0)
ClipLower0(x) == IF FLt(x, Zero) THEN Zero ELSE x

\* df['intrinsic']
Intrinsic(row) ==
    IF option_type = "call"
    THEN ClipLower0(FSub(current_price, row.strike))
    ELSE ClipLower0(FSub(row.strike, current_price))

\* mutant: the extrinsic premium clamped at 0
ExtrinsicPremiumClamped(mid, intrinsic) == ClipLower0(FSub(mid, intrinsic))

\* df['extrinsic_premium'] = df['mid'] - df['intrinsic']
ExtrinsicPremium(mid, intrinsic) == FSub(mid, intrinsic)

\* df['expected_utility_yield']
ExpectedUtilityYield(total_yield, delta_calc) ==
    IF option_type = "put"
    THEN FMul(total_yield, FSub(One, FAbs(delta_calc)))
    ELSE FMul(total_yield, FAbs(delta_calc))

\* the yield columns, in the order the code adds them
WithYields(row) ==
    LET intrinsic == Intrinsic(row)
        extrinsic_premium == ExtrinsicPremium(row.mid, intrinsic)
        total_yield == FDiv(extrinsic_premium, row.strike)
        weeks == Num(row.days_to_exp, 7)
        weekly_yield == FDiv(total_yield, weeks)
        expected_utility_yield == ExpectedUtilityYield(total_yield, row.delta_calc)
    IN  row @@ [intrinsic |-> intrinsic,
                extrinsic_premium |-> extrinsic_premium,
                total_yield |-> total_yield,
                weekly_yield |-> weekly_yield,
                expected_utility_yield |-> expected_utility_yield,
                expected_weekly_yield |-> FDiv(expected_utility_yield, weeks)]

\* df = df[df['weekly_yield'] >= min_weekly_yield]
YieldOK(row) == FGe(row.weekly_yield, min_weekly_yield)

\* the rows that reach the delta computation (lines 50-58)
Priced(exp, frame) ==
    LET dated == Map(LAMBDA q : WithExpiration(q, exp), frame)
        live == SelectSeq(dated, DaysOK)
        mids == Map(WithMid, live)
    IN  SelectSeq(SelectSeq(mids, SpreadOK), VolOK)

\* the priced rows that the delta filter and the weekly-yield filter keep, with
\* their yields (lines 59-103).  DataFrame.apply on a frame without rows is taken
\* to give a column without rows.
Scored(priced) ==
    LET deltas == Map(WithDelta, priced)
        kept == SelectSeq(deltas, DeltaOK)
    IN  SelectSeq(Map(WithYields, kept), YieldOK)

\* the frame appended to all_options (lines 50-103)
ProcessFrame(exp, frame) == Scored(Priced(exp, frame))

(***************************************************************************)
(* The scan: aggregation and ranking                                       *)
(***************************************************************************)
RECURSIVE concat(_)
\* pd.concat(all_options)
concat(frames) ==
    IF frames = <<>> THEN <<>> ELSE Head(frames) \o concat(Tail(frames))

\* f"{x:.2f}": the text of x with two decimals (the cents, rounded)
Format2f(x) ==
    IF IsNaN(x) THEN "nan"
    ELSE IF x = PosInf THEN "inf"
    ELSE IF x = NegInf THEN "-inf"
    ELSE [cents |-> (200 * x[1] + x[2]) \div (2 * x[2])]

\* final_df['strike'] = final_df['strike'].map(lambda x: f"{x:.2f}")
FormatStrike(row) == [row EXCEPT !.strike = Format2f(row.strike)]

cols == {"contractSymbol", "expiration", "strike", "delta_calc", "total_yield",
         "weekly_yield", "expected_utility_yield", "expected_weekly_yield",
         "extrinsic_premium", "bid_ask_spread"}

\* final_df[cols]
SelectCols(row) == [c \in cols |-> row[c]]

\* the place of x relative to y in one descending sort key, NaN last:
\* -1 before, 0 tied, 1 after
KeyOrder(x, y) ==
    IF IsNaN(x) THEN (IF IsNaN(y) THEN 0 ELSE 1)
    ELSE IF IsNaN(y) THEN -1
    ELSE IF FGt(x, y) THEN -1
    ELSE IF FLt(x, y) THEN 1
    ELSE 0

\* mutant: the sort on weekly_yield alone
PrecedesPrimaryOnly(a, b) == KeyOrder(a.weekly_yield, b.weekly_yield) = -1

\* a sorts strictly before b under by=['weekly_yield', 'expected_weekly_yield'],
\* ascending=False
Precedes(a, b) ==
    LET k == KeyOrder(a.weekly_yield, b.weekly_yield)
    IN  \/ k = -1
        \/ k = 0 /\ KeyOrder(a.expected_weekly_yield, b.expected_weekly_yield) = -1

RECURSIVE InsertRow(_, _)
InsertRow(sorted, row) ==
    IF sorted = <<>> THEN <<row>>
    ELSE IF Precedes(row, Head(sorted)) THEN <<row>> \o sorted
    ELSE <<Head(sorted)>> \o InsertRow(Tail(sorted), row)

RECURSIVE sort_values(_)
\* DataFrame.sort_values on several keys: a stable lexicographic sort
sort_values(df) ==
    IF df = <<>> THEN <<>>
    ELSE InsertRow(sort_values(SubSeq(df, 1, Len(df) - 1)), df[Len(df)])

\* DataFrame.head(n)
head(df, n) == SubSeq(df, 1, IF Len(df) < n THEN Len(df) ELSE n)

\* the table of the command line: format, select the columns, sort
FinalCli == sort_values(Map(SelectCols, Map(FormatStrike, concat(all_options))))

\* the table of the app: format, sort
FinalApp == sort_values(Map(FormatStrike, concat(all_options)))

(***************************************************************************)
(* The scan: steps                                                         *)
(***************************************************************************)
\* ticker.options answers; the dates up to max_exp_date are kept, in its order
GetExpirations ==
    /\ pc = "options"
    /\ \E listed \in Orderings(ProviderDates) :
          expirations' = SelectSeq(listed, LAMBDA d : d <= max_exp_date)
    /\ queries' = Append(queries, "options")
    /\ pc' = "history"
    /\ UNCHANGED <<params, current_price, next_exp, chains, all_options, skipped,
                   bs_calls, final_df, shown, best, outcome, bs_in, bs_out>>

\* ticker.options raises: "Error getting expiration dates", return / st.stop()
GetExpirationsRaises ==
    /\ pc = "options"
    /\ queries' = Append(queries, "options")
    /\ outcome' = "error_expirations"
    /\ pc' = "done"
    /\ UNCHANGED <<params, expirations, current_price, next_exp, chains,
                   all_options, skipped, bs_calls, final_df, shown, best, bs_in,
                   bs_out>>

\* ticker.history(period='1d')['Close'].iloc[-1] answers
GetPrice ==
    /\ pc = "history"
    /\ current_price' \in Spots
    /\ queries' = Append(queries, "history")
    /\ next_exp' = 1
    /\ pc' = "loop"
    /\ UNCHANGED <<params, expirations, chains, all_options, skipped, bs_calls,
                   final_df, shown, best, outcome, bs_in, bs_out>>

\* mutant: the price error is reported and the scan goes on without a price
GetPriceRaisesContinues ==
    /\ pc = "history"
    /\ queries' = Append(queries, "history")
    /\ outcome' = "error_price"
    /\ current_price' = NaN
    /\ next_exp' = 1
    /\ pc' = "loop"
    /\ UNCHANGED <<params, expirations, chains, all_options, skipped, bs_calls,
                   final_df, shown, best, bs_in, bs_out>>

\* the price query raises: "Error getting current price", return / st.stop()
GetPriceRaises ==
    /\ pc = "history"
    /\ queries' = Append(queries, "history")
    /\ outcome' = "error_price"
    /\ pc' = "done"
    /\ UNCHANGED <<params, expirations, current_price, next_exp, chains,
                   all_options, skipped, bs_calls, final_df, shown, best, bs_in,
                   bs_out>>

\* one iteration of the loop that runs to all_options.append(df)
ProcessExpiration ==
    /\ pc = "loop"
    /\ next_exp <= Len(expirations)
    /\ LET exp == expirations[next_exp]
       IN  \E quotes \in SeqsUpTo(QuoteKinds, MaxChain) :
              LET frame == Frame(exp, quotes)
                  priced == Priced(exp, frame)
              IN  /\ chains' = Append(chains, [expiration |-> exp, raised |-> NoText,
                                               rows |-> frame])
                  /\ bs_calls' = bs_calls \cup
                        {<<current_price, row.strike>> : row \in Rows(priced)}
                  /\ all_options' = Append(all_options, Scored(priced))
                  /\ queries' = Append(queries, <<"option_chain", exp>>)
    /\ next_exp' = next_exp + 1
    /\ UNCHANGED <<params, pc, expirations, current_price, skipped, final_df,
                   shown, best, outcome, bs_in, bs_out>>

\* mutant: no except clause around the iteration, the exception ends the scan
ProcessExpirationRaisesAborts ==
    /\ pc = "loop"
    /\ next_exp <= Len(expirations)
    /\ LET exp == expirations[next_exp]
       IN  \E what \in {"option_chain"} \cup Columns :
              /\ chains' = Append(chains, [expiration |-> exp, raised |-> what,
                                           rows |-> <<>>])
              /\ queries' = Append(queries, <<"option_chain", exp>>)
    /\ next_exp' = next_exp + 1
    /\ outcome' = "exception"
    /\ pc' = "done"
    /\ UNCHANGED <<params, expirations, current_price, all_options, skipped,
                   bs_calls, final_df, shown, best, bs_in, bs_out>>

\* one iteration that raises (the chain query, or a column the frame lacks):
\* the except clause logs the expiration and continues
ProcessExpirationRaises ==
    /\ pc = "loop"
    /\ next_exp <= Len(expirations)
    /\ LET exp == expirations[next_exp]
       IN  \E what \in {"option_chain"} \cup Columns :
              /\ chains' = Append(chains, [expiration |-> exp, raised |-> what,
                                           rows |-> <<>>])
              /\ skipped' = Append(skipped, exp)
              /\ queries' = Append(queries, <<"option_chain", exp>>)
    /\ next_exp' = next_exp + 1
    /\ UNCHANGED <<params, pc, expirations, current_price, all_options, bs_calls,
                   final_df, shown, best, outcome, bs_in, bs_out>>

\* after the loop: "No options matched your criteria", or the sorted table, its
\* head and final_df.iloc[0], which raises IndexError on an empty table
Finish ==
    /\ pc = "loop"
    /\ next_exp > Len(expirations)
    /\ pc' = "done"
    /\ IF all_options = <<>>
       THEN /\ outcome' = "no_candidates"
            /\ UNCHANGED <<final_df, shown, best>>
       ELSE LET table == IF surface = "cli" THEN FinalCli ELSE FinalApp
            IN  /\ final_df' = <<table>>
                /\ shown' = IF surface = "cli"
                            THEN <<head(table, HeadCli)>>
                            ELSE <<head(Map(SelectCols, table), HeadApp)>>
                /\ IF table = <<>>
                   THEN best' = None /\ outcome' = "IndexError"
                   ELSE best' = <<table[1]>> /\ outcome' = "ranked"
    /\ UNCHANGED <<params, queries, expirations, current_price, next_exp, chains,
                   all_options, skipped, bs_calls, bs_in, bs_out>>

Next ==
    \/ GetExpirations
    \/ GetExpirationsRaises
    \/ GetPrice
    \/ GetPriceRaises
    \/ ProcessExpiration
    \/ ProcessExpirationRaises
    \/ Finish

Spec == Init /\ [][Next]_vars

(***************************************************************************)
(* Properties of the scan                                                  *)
(***************************************************************************)
Fatal == outcome \in {"error_expirations", "error_price"}

\* the scored candidates, in concatenation order
Candidates == concat(all_options)

\* C1: a scan that obtained the expiration list and the spot price, processed
\* every expiration without a skip, and in which no contract survived the filters
\* (here: every strike is positive, in every expiration some contract reached the
\* delta computation and the delta or weekly-yield filter removed it) ends in
\* the "no candidates" outcome: no exception, no ranked table, no best candidate.
NoCandidatesOutcome ==
    (/\ pc = "done"
     /\ ~Fatal
     /\ skipped = <<>>
     /\ chains # <<>>
     /\ \A i \in 1..Len(chains) :
           /\ Priced(chains[i].expiration, chains[i].rows) # <<>>
           /\ \A q \in Rows(chains[i].rows) : FGt(q.strike, Zero)
     /\ Candidates = <<>>)
    => (outcome = "no_candidates" /\ final_df = None /\ shown = None /\ best = None)

\* C3: a failure of the expiration-list query or of the price query ends the
\* scan at once: no expiration is processed, nothing is output, and the outcome
\* is neither "no candidates" nor a skip.
FatalAborts ==
    Fatal =>
        /\ pc = "done"
        /\ chains = <<>> /\ all_options = <<>> /\ skipped = <<>> /\ bs_calls = {}
        /\ final_df = None /\ shown = None /\ best = None
        /\ \A i \in 1..Len(queries) : queries[i] \in {"options", "history"}
        /\ queries[Len(queries)] =
              (IF outcome = "error_price" THEN "history" ELSE "options")
        /\ outcome # "no_candidates"

\* the price query failed although there were expirations to process
FatalAbortsWitness ==
    /\ outcome = "error_price"
    /\ Len(expirations) = 2
    /\ pc = "done"

InvalidParameters ==
    \/ option_type \notin {"call", "put"}
    \/ delta_target # None /\ delta_bound_type \notin {"min", "max"}

\* C4: with a present delta_target and a bound outside {min, max}, or an option
\* type outside {call, put}, the scan makes no provider query, applies no
\* silent default and ends in a parameter-validation failure.
ValidationBeforeQueries ==
    InvalidParameters =>
        /\ queries = <<>>
        /\ chains = <<>>
        /\ (pc = "done" => outcome = "invalid_parameters")

Succeeded(c) == c.raised = NoText

Raised(c) == c.raised # NoText

ExpirationOf(c) == c.expiration

SurvivorsOf(c) == ProcessFrame(c.expiration, c.rows)

Symbols(q) == {q[i].contractSymbol : i \in 1..Len(q)}

\* C2: when the processing of an expiration raises, the scan goes on with the
\* remaining expirations, one skip is recorded for each failing expiration and
\* none for the others, and the candidates and the ranked table hold exactly the
\* surviving contracts of the expirations that succeeded, in every order of the
\* expirations.
SkipIsolated ==
    (pc \in {"loop", "done"} /\ ~Fatal) =>
        /\ Len(chains) = next_exp - 1
        /\ \A i \in 1..Len(chains) : chains[i].expiration = expirations[i]
        /\ pc = "done" => Len(chains) = Len(expirations)
        /\ skipped = Map(ExpirationOf, SelectSeq(chains, Raised))
        /\ Len(all_options) = Len(SelectSeq(chains, Succeeded))
        /\ skipped # <<>> =>
              /\ all_options = Map(SurvivorsOf, SelectSeq(chains, Succeeded))
              /\ \A row \in Rows(Candidates) : row.expiration \notin Rows(skipped)
              /\ outcome = "ranked" =>
                    /\ Len(final_df[1]) = Len(Candidates)
                    /\ Symbols(final_df[1]) = Symbols(Candidates)
                    /\ \A row \in Rows(final_df[1]) :
                          row.expiration \notin Rows(skipped)

\* the first of two expirations raised, the second one gave the ranked table
SkipIsolatedWitness ==
    /\ outcome = "ranked"
    /\ Len(expirations) = 2
    /\ skipped = <<expirations[1]>>
    /\ chains[1].raised = "impliedVolatility"
    /\ Len(final_df[1]) > 0
    /\ \A row \in Rows(final_df[1]) : row.expiration = expirations[2]

\* the delta bound of the specification on one candidate
DeltaBoundHolds(row) ==
    delta_target # None =>
        /\ (option_type = "put" /\ delta_bound_type = "min") =>
              FLe(row.delta_calc, FNeg(FAbs(delta_target)))
        /\ (option_type = "put" /\ delta_bound_type = "max") =>
              FGe(row.delta_calc, FNeg(FAbs(delta_target)))
        /\ (option_type = "call" /\ delta_bound_type = "min") =>
              FGe(row.delta_calc, delta_target)
        /\ (option_type = "call" /\ delta_bound_type = "max") =>
              FLe(row.delta_calc, delta_target)

\* C5: whenever delta_target is present, zero included, every candidate
\* satisfies the delta bound of its option type and bound direction.
DeltaFilterApplied ==
    \A row \in Rows(Candidates) : DeltaBoundHolds(row)

\* the chain rows the provider supplied for an expiration
SuppliedFor(exp) ==
    UNION {Rows(chains[i].rows) : i \in {j \in 1..Len(chains) : chains[j].expiration = exp}}

IsSupplied(row) ==
    \E q \in SuppliedFor(row.expiration) :
        /\ q.contractSymbol = row.contractSymbol
        /\ q.strike = row.strike /\ q.bid = row.bid /\ q.ask = row.ask
        /\ q.impliedVolatility = row.impliedVolatility

\* C6: every candidate is one of the contracts supplied for its expiration, none
\* twice, and passes every filter: days to expiration > 0, spread <= the maximum,
\* implied volatility > 0, the delta bound when delta_target is present, and
\* weekly yield >= the minimum.
CandidatesFiltered ==
    /\ \A row \in Rows(Candidates) :
          /\ IsSupplied(row)
          /\ row.days_to_exp > 0
          /\ FLe(FSub(row.ask, row.bid), max_bid_ask_spread)
          /\ FGt(row.impliedVolatility, Zero)
          /\ DeltaBoundHolds(row)
          /\ FGe(row.weekly_yield, min_weekly_yield)
    /\ Cardinality(Symbols(Candidates)) = Len(Candidates)
    /\ final_df # None =>
          /\ Symbols(final_df[1]) \subseteq Symbols(Candidates)
          /\ Cardinality(Symbols(final_df[1])) = Len(final_df[1])

\* the place of a contract in the concatenated candidates
Place(symbol) == CHOOSE i \in 1..Len(Candidates) : Candidates[i].contractSymbol = symbol

\* C7: the ranked table is a permutation of the concatenated candidates, in
\* descending weekly yield, ties in descending expected weekly yield, full ties
\* in concatenation order; the best candidate is its first row and has the
\* largest weekly yield; the displayed shortlist is a prefix of it.
RankedOrder ==
    outcome = "ranked" =>
        LET table == final_df[1]
            limit == IF surface = "cli" THEN HeadCli ELSE HeadApp
        IN  /\ Len(table) = Len(Candidates)
            /\ Symbols(table) = Symbols(Candidates)
            /\ Cardinality(Symbols(table)) = Len(table)
            /\ \A i, j \in 1..Len(table) :
                  i < j =>
                     /\ FGe(table[i].weekly_yield, table[j].weekly_yield)
                     /\ table[i].weekly_yield = table[j].weekly_yield =>
                           FGe(table[i].expected_weekly_yield,
                               table[j].expected_weekly_yield)
                     /\ (/\ table[i].weekly_yield = table[j].weekly_yield
                         /\ table[i].expected_weekly_yield =
                               table[j].expected_weekly_yield) =>
                           Place(table[i].contractSymbol) < Place(table[j].contractSymbol)
            /\ best = <<table[1]>>
            /\ \A row \in Rows(Candidates) :
                  FGe(best[1].weekly_yield, row.weekly_yield)
            /\ Len(shown[1]) = IF Len(table) < limit THEN Len(table) ELSE limit
            /\ \A i \in 1..Len(shown[1]) :
                  /\ shown[1][i].contractSymbol = table[i].contractSymbol
                  /\ shown[1][i].weekly_yield = table[i].weekly_yield

\* a tie on weekly yield was broken by the expected weekly yield against the
\* concatenation order
RankedOrderWitness ==
    /\ outcome = "ranked"
    /\ Len(final_df[1]) = 2
    /\ final_df[1][1].weekly_yield = final_df[1][2].weekly_yield
    /\ FGt(final_df[1][1].expected_weekly_yield, final_df[1][2].expected_weekly_yield)
    /\ Place(final_df[1][1].contractSymbol) = 2

\* a full tie was kept in concatenation order
RankedStableWitness ==
    /\ outcome = "ranked"
    /\ Len(final_df[1]) = 2
    /\ final_df[1][1].weekly_yield = final_df[1][2].weekly_yield
    /\ final_df[1][1].expected_weekly_yield = final_df[1][2].expected_weekly_yield
    /\ Place(final_df[1][1].contractSymbol) = 1

FMax(a, b) == IF FGe(a, b) THEN a ELSE b

\* the data-model formulas on one candidate
FormulasHold(row) ==
    LET spot == current_price
        weeks == Num(row.days_to_exp, 7)
        mid == FDiv(FAdd(row.bid, row.ask), Num(2, 1))
        intrinsicValue == IF option_type = "call"
                          THEN FMax(FSub(spot, row.strike), Zero)
                          ELSE FMax(FSub(row.strike, spot), Zero)
        extrinsicPremium == FSub(mid, intrinsicValue)
        totalYield == FDiv(extrinsicPremium, row.strike)
        expectedUtilityYield ==
            IF option_type = "call"
            THEN FMul(totalYield, FAbs(row.delta_calc))
            ELSE FMul(totalYield, FSub(One, FAbs(row.delta_calc)))
    IN  /\ row.mid = mid
        /\ row.bid_ask_spread = FSub(row.ask, row.bid)
        /\ row.intrinsic = intrinsicValue
        /\ FGe(row.intrinsic, Zero)
        /\ row.extrinsic_premium = extrinsicPremium
        /\ row.total_yield = totalYield
        /\ row.weekly_yield = FDiv(totalYield, weeks)
        /\ row.expected_utility_yield = expectedUtilityYield
        /\ row.expected_weekly_yield = FDiv(expectedUtilityYield, weeks)

\* C9: for calls and puts, every candidate's derived fields are the data-model
\* formulas on its own supplied quote and the scan's spot price (the extrinsic
\* premium is not clamped), and the ranked table shows those values.
DerivedFields ==
    (pc = "done" /\ option_type \in {"call", "put"}) =>
        /\ \A row \in Rows(Candidates) : IsSupplied(row) /\ FormulasHold(row)
        /\ final_df # None =>
              \A shownRow \in Rows(final_df[1]) :
                 \E row \in Rows(Candidates) :
                    /\ row.contractSymbol = shownRow.contractSymbol
                    /\ \A c \in cols \ {"strike"} : shownRow[c] = row[c]

\* a candidate with a negative extrinsic premium is in the ranked table
DerivedFieldsWitness ==
    /\ outcome = "ranked"
    /\ option_type = "put"
    /\ \E row \in Rows(final_df[1]) :
          /\ FLt(row.extrinsic_premium, Zero)
          /\ FLt(row.weekly_yield, Zero)

====
